---------------------------- MODULE Spec2Model ----------------------------
(***************************************************************************)
(* Model of the invoice extraction service.                                *)
(*                                                                         *)
(*   - server/app/services/excel_processor.py : the tabular aggregator     *)
(*     process_excel_with_ai_mapping (specification Spec)                  *)
(*   - server/app/routers/ai_route.py and server/app/services/ai_service.py*)
(*     : the per-file orchestrator process_invoice_with_ai together with   *)
(*     AIService.generate (specification OrchSpec)                         *)
(*                                                                         *)
(* Text is a sequence of one-character strings, so that strip, lower,      *)
(* the regular expressions and the f-string formatting of the code are     *)
(* computed character by character.  A Python float is a decimal number    *)
(* [m |-> mantissa, d |-> number of decimals] kept normalised (no trailing *)
(* zero decimal); arithmetic on it is exact.  Python computes in binary    *)
(* floating point: the model's values are the decimal values the code's    *)
(* results print as, and round-half-even is applied to the exact value.    *)
(***************************************************************************)
EXTENDS Integers, Sequences, FiniteSets, TLC

(***************************************************************************)
(* Characters and text                                                     *)
(***************************************************************************)
UpperCase == <<"A","B","C","D","E","F","G","H","I","J","K","L","M",
               "N","O","P","Q","R","S","T","U","V","W","X","Y","Z">>

LowerCase == <<"a","b","c","d","e","f","g","h","i","j","k","l","m",
               "n","o","p","q","r","s","t","u","v","w","x","y","z">>

DigitChars == <<"0","1","2","3","4","5","6","7","8","9">>

\* the value of each decimal digit
DigitOf ==
    [c \in {DigitChars[i] : i \in 1..10} |-> (CHOOSE i \in 1..10 : DigitChars[i] = c) - 1]

IsDigit(c) == c \in DOMAIN DigitOf

DigitVal(c) == DigitOf[c]

IsSpace(c) == c = " "

\* the lower-case letter of each upper-case letter
LowerOf ==
    [c \in {UpperCase[i] : i \in 1..26} |-> LowerCase[CHOOSE i \in 1..26 : UpperCase[i] = c]]

\* str.lower() of one character
LowerChar(c) == IF c \in DOMAIN LowerOf THEN LowerOf[c] ELSE c

\* str.lower()
Lower(s) == [i \in 1..Len(s) |-> LowerChar(s[i])]

\* s[i..j] (1-based, inclusive), the empty text when j < i
Slice(s, i, j) == IF j < i THEN <<>> ELSE SubSeq(s, i, j)

\* str.strip(): surrounding whitespace removed
Strip(s) ==
    LET keep == {i \in 1..Len(s) : ~IsSpace(s[i])}
    IN  IF keep = {} THEN <<>>
        ELSE LET lo == CHOOSE i \in keep : \A j \in keep : i <= j
                 hi == CHOOSE i \in keep : \A j \in keep : j <= i
             IN  SubSeq(s, lo, hi)

\* sub in s
Contains(s, sub) ==
    \E i \in 1..(Len(s) - Len(sub) + 1) : SubSeq(s, i, i + Len(sub) - 1) = sub

\* s.endswith(suf)
EndsWith(s, suf) ==
    /\ Len(s) >= Len(suf)
    /\ SubSeq(s, Len(s) - Len(suf) + 1, Len(s)) = suf

\* the characters of s that satisfy Keep, in order (re.sub of the others by '')
RECURSIVE Filter(_, _)
Filter(s, keep) ==
    IF s = <<>> THEN <<>>
    ELSE IF Head(s) \in keep THEN <<Head(s)>> \o Filter(Tail(s), keep)
         ELSE Filter(Tail(s), keep)

\* index of the last character of the run of digits that starts at i
RECURSIVE DigitRunEnd(_, _)
DigitRunEnd(s, i) ==
    IF i < Len(s) /\ IsDigit(s[i + 1]) THEN DigitRunEnd(s, i + 1) ELSE i

\* first index >= i that holds no whitespace (Len(s) + 1 when there is none)
RECURSIVE SkipSpaces(_, _)
SkipSpaces(s, i) ==
    IF i <= Len(s) /\ IsSpace(s[i]) THEN SkipSpaces(s, i + 1) ELSE i

(***************************************************************************)
(* Decimal numbers                                                         *)
(***************************************************************************)
RECURSIVE Pow10(_)
Pow10(n) == IF n = 0 THEN 1 ELSE 10 * Pow10(n - 1)

RECURSIVE Norm(_, _)
Norm(m, d) ==
    IF m = 0 THEN [m |-> 0, d |-> 0]
    ELSE IF d > 0 /\ m % 10 = 0 THEN Norm(m \div 10, d - 1)
         ELSE [m |-> m, d |-> d]

Zero == Norm(0, 0)

Max(a, b) == IF a >= b THEN a ELSE b

DAdd(a, b) ==
    LET d == Max(a.d, b.d)
    IN  Norm(a.m * Pow10(d - a.d) + b.m * Pow10(d - b.d), d)

DMul(a, b) == Norm(a.m * b.m, a.d + b.d)

\* x / 100
DDiv100(a) == Norm(a.m, a.d + 2)

DIsPositive(a) == a.m > 0

\* float.is_integer()
DIsInteger(a) == a.d = 0

\* n / k rounded to the nearest integer, ties to even
RoundDivHalfEven(n, k) ==
    LET q == n \div k
        r == n % k
    IN  IF 2 * r > k \/ (2 * r = k /\ q % 2 = 1) THEN q + 1 ELSE q

\* round(x, 2)
DRound2(a) ==
    IF a.d <= 2 THEN a
    ELSE Norm(RoundDivHalfEven(a.m, Pow10(a.d - 2)), 2)

\* round((a / b) * 100, 2), for b > 0
DPercentOf(a, b) ==
    Norm(RoundDivHalfEven(a.m * Pow10(4) * Pow10(b.d), b.m * Pow10(a.d)), 2)

RECURSIVE DSum(_)
DSum(seq) == IF seq = <<>> THEN Zero ELSE DAdd(Head(seq), DSum(Tail(seq)))

\* the value of a run of digits
RECURSIVE DigitsVal(_)
DigitsVal(s) ==
    IF s = <<>> THEN 0
    ELSE DigitsVal(SubSeq(s, 1, Len(s) - 1)) * 10 + DigitVal(s[Len(s)])

\* the digits of a natural number
RECURSIVE NatDigits(_)
NatDigits(n) ==
    IF n < 10 THEN <<DigitChars[n + 1]>>
    ELSE NatDigits(n \div 10) \o <<DigitChars[(n % 10) + 1]>>

\* float(s) for a text of digits holding at most one '.', at least one digit
DecOfText(s) ==
    LET dots == {i \in 1..Len(s) : s[i] = "."}
    IN  IF dots = {} THEN Norm(DigitsVal(s), 0)
        ELSE LET p == CHOOSE i \in dots : TRUE
             IN  Norm(DigitsVal(Slice(s, 1, p - 1) \o Slice(s, p + 1, Len(s))),
                      Len(s) - p)

(***************************************************************************)
(* Texts the code compares with or writes                                  *)
(***************************************************************************)
T_ZeroTax == <<"0",".","0","0"," ","(","0","%",")">>

T_unknown_customer == <<"u","n","k","n","o","w","n"," ","c","u","s","t","o","m","e","r">>

T_Unknown_Customer == <<"U","n","k","n","o","w","n"," ","C","u","s","t","o","m","e","r">>

T_Unknown_Serial == <<"U","n","k","n","o","w","n"," ","S","e","r","i","a","l">>

T_Unknown_Product == <<"U","n","k","n","o","w","n"," ","P","r","o","d","u","c","t">>

T_ZeroPointZero == <<"0",".","0">>

T_DotZero == <<".","0">>

T_nan == <<"n","a","n">>

PhoneWords == {<<"p","h","o","n","e">>, <<"m","o","b","i","l","e">>, <<"c","o","n","t","a","c","t">>}

T_tax == <<"t","a","x">>

T_Percent == <<"%">>

\* Python's None for a column name.  The code only tests a column name for
\* truth ("col and col in df.columns"), where None and '' agree, and takes
\* str() of it to look for '%', which neither "None" nor '' holds.
None == <<>>

(***************************************************************************)
(* Formatting and the regular expressions of excel_processor.py            *)
(***************************************************************************)
\* the digits of n, zero-padded on the left to w characters
RECURSIVE PadDigits(_, _)
PadDigits(n, w) ==
    IF w = 0 THEN <<>> ELSE PadDigits(n \div 10, w - 1) \o <<DigitChars[(n % 10) + 1]>>

\* the ',' thousands grouping of format spec ",": 1234567 -> 1,234,567
RECURSIVE GroupThousands(_)
GroupThousands(n) ==
    IF n < 1000 THEN NatDigits(n)
    ELSE GroupThousands(n \div 1000) \o <<",">> \o PadDigits(n % 1000, 3)

\* f"{amount:,.2f}"
FormatAmount(amount) ==
    LET r     == DRound2(amount)
        cents == r.m * Pow10(2 - r.d)
    IN  GroupThousands(cents \div 100) \o <<".">> \o PadDigits(cents % 100, 2)

\* repr of a float below 0.0001, which Python writes with an exponent:
\* 0.00001 -> "1e-05", 0.000012 -> "1.2e-05"
ExponentRepr(a) ==
    LET digits == NatDigits(a.m)
    IN  <<Head(digits)>>
        \o (IF Len(digits) > 1 THEN <<".">> \o Tail(digits) ELSE <<>>)
        \o <<"e", "-">> \o PadDigits(a.d - Len(digits) + 1, 2)

\* repr of a float: 18.0 -> "18.0", 12.5 -> "12.5", 0.00001 -> "1e-05"
\* (the model holds no float of 1e16 or more, which repr writes with "e+")
FloatRepr(a) ==
    IF a.d = 0 THEN NatDigits(a.m) \o <<".", "0">>
    ELSE IF Len(NatDigits(a.m)) + 4 <= a.d THEN ExponentRepr(a)
    ELSE NatDigits(a.m \div Pow10(a.d)) \o <<".">> \o PadDigits(a.m % Pow10(a.d), a.d)

\* repr of an int
IntRepr(a) == NatDigits(a.m)

\* f"{amount:,.2f} ({perc}%)" where percText is the repr of perc
FormatTax(amount, percText) ==
    FormatAmount(amount) \o <<" ", "(">> \o percText \o <<"%", ")">>

\* end of the longest \d+(?:\.\d+)? that starts at the digit s[i]
NumberEnd(s, i) ==
    LET j == DigitRunEnd(s, i)
    IN  IF j + 2 <= Len(s) /\ s[j + 1] = "." /\ IsDigit(s[j + 2])
        THEN DigitRunEnd(s, j + 2)
        ELSE j

\* re.search(r'(\d+(?:\.\d+)?)', s): group 1, or the empty text without a match
FirstNumber(s) ==
    LET starts == {i \in 1..Len(s) : IsDigit(s[i])}
    IN  IF starts = {} THEN <<>>
        ELSE LET i == CHOOSE x \in starts : \A y \in starts : x <= y
             IN  SubSeq(s, i, NumberEnd(s, i))

\* whether s[i] is the character c (FALSE past the end)
CharAt(s, i, c) == i <= Len(s) /\ s[i] = c

\* re.search(r'(\d+(?:\.\d+)?)\s*%', s): group 1, or the empty text
PercentToken(s) ==
    LET ok(i) == /\ IsDigit(s[i])
                 /\ CharAt(s, SkipSpaces(s, NumberEnd(s, i) + 1), "%")
        starts == {i \in 1..Len(s) : ok(i)}
    IN  IF starts = {} THEN <<>>
        ELSE LET i == CHOOSE x \in starts : \A y \in starts : x <= y
             IN  SubSeq(s, i, NumberEnd(s, i))

\* end of the longest \d+(?:,\d+)* that starts at the digit s[i]
RECURSIVE CommaGroupsEnd(_, _)
CommaGroupsEnd(s, i) ==
    LET j == DigitRunEnd(s, i)
    IN  IF j + 2 <= Len(s) /\ s[j + 1] = "," /\ IsDigit(s[j + 2])
        THEN CommaGroupsEnd(s, j + 2)
        ELSE j

\* GroupedNumberEnd for a pattern without its (?:,\d+)* part
UngroupedNumberEnd(s, i) == NumberEnd(s, i)

\* end of the longest \d+(?:,\d+)*(?:\.\d+)? that starts at the digit s[i]
GroupedNumberEnd(s, i) ==
    LET j == CommaGroupsEnd(s, i)
    IN  IF j + 2 <= Len(s) /\ s[j + 1] = "." /\ IsDigit(s[j + 2])
        THEN DigitRunEnd(s, j + 2)
        ELSE j

\* re.search(r'(\d+(?:,\d+)*(?:\.\d+)?)(?=\s*\()', s): group 1, or the empty text
AmountToken(s) ==
    LET ok(i) == /\ IsDigit(s[i])
                 /\ CharAt(s, SkipSpaces(s, GroupedNumberEnd(s, i) + 1), "(")
        starts == {i \in 1..Len(s) : ok(i)}
    IN  IF starts = {} THEN <<>>
        ELSE LET i == CHOOSE x \in starts : \A y \in starts : x <= y
             IN  SubSeq(s, i, GroupedNumberEnd(s, i))

NumericChars == {"0","1","2","3","4","5","6","7","8","9","."}

\* float(clean_str) raises ValueError: a text of digits and points that is
\* no float literal
FloatRaises(clean_str) ==
    \/ Cardinality({i \in 1..Len(clean_str) : clean_str[i] = "."}) > 1
    \/ ~\E i \in 1..Len(clean_str) : IsDigit(clean_str[i])

\* TryFloat without the except clause: the ValueError leaves parse_float
TryFloatUncaught(clean_str) ==
    IF FloatRaises(clean_str) THEN [raises |-> TRUE, value |-> Zero]
    ELSE [raises |-> FALSE, value |-> DecOfText(clean_str)]

\* lines 47-54: float(clean_str) inside try, "except: return 0.0"
TryFloat(clean_str) ==
    IF FloatRaises(clean_str) THEN [raises |-> FALSE, value |-> Zero]
    ELSE [raises |-> FALSE, value |-> DecOfText(clean_str)]

\* parse_float: the numeric residue of val, 0.0 when float() raises
parse_float(val) ==
    IF val = <<>> THEN Zero
    ELSE LET clean_str == Filter(val, NumericChars)
         IN  IF clean_str = <<>> THEN Zero
             ELSE TryFloat(clean_str).value

\* an exception leaves parse_float(val)
ParseFloatRaises(val) ==
    /\ val # <<>>
    /\ Filter(val, NumericChars) # <<>>
    /\ TryFloat(Filter(val, NumericChars)).raises

\* parse_tax: [amount, text]
parse_tax(tax_val, unit_price, qty, heading_name) ==
    IF tax_val = <<>> THEN [amount |-> Zero, text |-> T_ZeroTax]
    ELSE LET tax_str == Strip(tax_val)
         IN  IF heading_name # <<>> /\ Contains(heading_name, T_Percent)
             THEN LET perc_match == FirstNumber(tax_str)
                      perc   == IF perc_match # <<>> THEN DecOfText(perc_match) ELSE Zero
                      amount == DMul(DMul(qty, unit_price), DDiv100(perc))
                  IN  [amount |-> amount, text |-> FormatTax(amount, FloatRepr(perc))]
             ELSE LET amount   == parse_float(tax_val)
                      subtotal == DMul(qty, unit_price)
                      perc     == IF DIsPositive(subtotal)
                                  THEN DPercentOf(amount, subtotal) ELSE Zero
                      percText == IF DIsInteger(perc) THEN IntRepr(perc) ELSE FloatRepr(perc)
                  IN  [amount |-> amount, text |-> FormatTax(amount, percText)]

(***************************************************************************)
(* The aggregator: process_excel_with_ai_mapping                           *)
(*                                                                         *)
(* A sheet sh is [columns |-> df.columns, mapping |-> mapping_obj]; a row  *)
(* is the sequence of its cells in column order, each cell the text        *)
(* str() gives for the value pandas read (after fillna('')).               *)
(***************************************************************************)
Fields == {"customer_name", "phone_number", "invoice_date", "total_amount",
           "quantity", "unit_price", "product_name", "serial_number", "tax"}

\* getattr(mapping_obj, field_name, None)
get_col(sh, field_name) == sh.mapping[field_name]

\* col and col in df.columns
InColumns(sh, col) == col # None /\ \E i \in 1..Len(sh.columns) : sh.columns[i] = col

\* row[col]
Cell(sh, row, col) == row[CHOOSE i \in 1..Len(sh.columns) : sh.columns[i] = col]

\* str(row[col]).strip() if col and col in df.columns else dflt
StrippedCell(sh, row, field_name, dflt) ==
    LET col == get_col(sh, field_name)
    IN  IF InColumns(sh, col) THEN Strip(Cell(sh, row, col)) ELSE dflt

r_cust(sh, row) == StrippedCell(sh, row, "customer_name", <<>>)

r_date(sh, row) == StrippedCell(sh, row, "invoice_date", <<>>)

r_total(sh, row) == StrippedCell(sh, row, "total_amount", <<>>)

\* the test of line 86: the row is skipped
Excluded(sh, row) ==
    \/ r_cust(sh, row) = <<>>
    \/ Lower(r_cust(sh, row)) = T_unknown_customer
    \/ r_date(sh, row) = <<>>
    \/ r_total(sh, row) = <<>>
    \/ r_total(sh, row) = T_ZeroPointZero

r_serial(sh, row) == StrippedCell(sh, row, "serial_number", T_Unknown_Serial)

\* the phone text before the '.0' and 'nan' clean-up (lines 91-104)
RawPhone(sh, row) ==
    LET mapped == StrippedCell(sh, row, "phone_number", <<>>)
        isPhoneCol(i) == \E x \in PhoneWords : Contains(Lower(sh.columns[i]), x)
        hits == {i \in 1..Len(sh.columns) : isPhoneCol(i) /\ Strip(row[i]) # <<>>}
    IN  IF mapped # <<>> THEN mapped
        ELSE IF hits = {} THEN <<>>
             ELSE Strip(row[CHOOSE i \in hits : \A j \in hits : i <= j])

\* r_phone comparing with "nan" as written
r_phoneCaseSensitive(sh, row) ==
    LET p0 == RawPhone(sh, row)
        p1 == IF EndsWith(p0, T_DotZero) THEN SubSeq(p0, 1, Len(p0) - 2) ELSE p0
    IN  IF p1 = T_nan THEN <<>> ELSE p1

\* lines 106-111
r_phone(sh, row) ==
    LET p0 == RawPhone(sh, row)
        p1 == IF EndsWith(p0, T_DotZero) THEN SubSeq(p0, 1, Len(p0) - 2) ELSE p0
    IN  IF Lower(p1) = T_nan THEN <<>> ELSE p1

\* line 113
group_key(sh, row) ==
    << IF r_cust(sh, row) # <<>> THEN r_cust(sh, row) ELSE T_Unknown_Customer,
       r_serial(sh, row), r_phone(sh, row) >>

p_name(sh, row) == StrippedCell(sh, row, "product_name", T_Unknown_Product)

\* parse_float(row[col] if col and col in df.columns else 0)
NumberCell(sh, row, field_name) ==
    LET col == get_col(sh, field_name)
    IN  IF InColumns(sh, col) THEN parse_float(Cell(sh, row, col)) ELSE Zero

p_qty(sh, row) == NumberCell(sh, row, "quantity")

p_unit(sh, row) == NumberCell(sh, row, "unit_price")

\* lines 139-149: [tax_str, actual_tax_col]
TaxCell(sh, row) ==
    LET col_tax == get_col(sh, "tax")
        isTaxCol(i) == \/ Contains(Lower(sh.columns[i]), T_tax)
                       \/ Contains(sh.columns[i], T_Percent)
        hits == {i \in 1..Len(sh.columns) : isTaxCol(i)}
    IN  IF InColumns(sh, col_tax)
        THEN [tax_str |-> Cell(sh, row, col_tax), actual_tax_col |-> col_tax]
        ELSE IF hits = {} THEN [tax_str |-> <<>>, actual_tax_col |-> col_tax]
             ELSE LET i == CHOOSE x \in hits : \A y \in hits : x <= y
                  IN  [tax_str |-> row[i], actual_tax_col |-> sh.columns[i]]

\* an exception leaves the numeric parsing of the row (lines 134-136, 151):
\* parse_float of the quantity, unit price or tax-amount cell; the division
\* of line 72 is only evaluated for a subtotal above zero
RowRaises(sh, row) ==
    \/ \E f \in {"quantity", "unit_price"} :
          /\ InColumns(sh, get_col(sh, f))
          /\ ParseFloatRaises(Cell(sh, row, get_col(sh, f)))
    \/ /\ ~Contains(TaxCell(sh, row).actual_tax_col, T_Percent)
       /\ ParseFloatRaises(TaxCell(sh, row).tax_str)

\* line 151
RowTax(sh, row) ==
    parse_tax(TaxCell(sh, row).tax_str, p_unit(sh, row), p_qty(sh, row),
              TaxCell(sh, row).actual_tax_col)

\* lines 168-174: the Product of a first occurrence
NewProduct(sh, row) ==
    [name           |-> p_name(sh, row),
     quantity       |-> p_qty(sh, row),
     unit_price     |-> p_unit(sh, row),
     tax            |-> RowTax(sh, row).text,
     price_with_tax |-> DAdd(DMul(p_qty(sh, row), p_unit(sh, row)), RowTax(sh, row).amount)]

\* MergeProduct adding the row's own tax and price to the running values
MergeProductSummed(ep, sh, row) ==
    LET amount_match  == PercentToken(ep.tax)
        ep_perc       == IF amount_match # <<>> THEN DecOfText(amount_match) ELSE Zero
        ep_tax_amount == DAdd(parse_float(AmountToken(ep.tax)), RowTax(sh, row).amount)
    IN  [ep EXCEPT !.quantity = DAdd(ep.quantity, p_qty(sh, row)),
                   !.tax = FormatTax(ep_tax_amount, FloatRepr(ep_perc)),
                   !.price_with_tax =
                       DAdd(ep.price_with_tax,
                            DAdd(DMul(p_qty(sh, row), p_unit(sh, row)), RowTax(sh, row).amount))]

\* lines 156-166: a repeat occurrence (row) merged into the existing Product ep
MergeProduct(ep, sh, row) ==
    LET quantity      == DAdd(ep.quantity, p_qty(sh, row))
        amount_match  == PercentToken(ep.tax)
        ep_perc       == IF amount_match # <<>> THEN DecOfText(amount_match) ELSE Zero
        ep_tax_amount == DMul(DMul(quantity, ep.unit_price), DDiv100(ep_perc))
    IN  [ep EXCEPT !.quantity = quantity,
                   !.tax = FormatTax(ep_tax_amount, FloatRepr(ep_perc)),
                   !.price_with_tax = DAdd(DMul(quantity, ep.unit_price), ep_tax_amount)]

\* lines 116-130: the invoice created on the first occurrence of a key
NewInvoice(sh, row) ==
    [group_key       |-> group_key(sh, row),
     invoice_details |-> [serial_number    |-> r_serial(sh, row),
                          total_quantity   |-> Zero,
                          total_tax_amount |-> Zero,
                          total_amount     |-> Zero,
                          date             |-> r_date(sh, row)],
     customer        |-> [customer_name         |-> r_cust(sh, row),
                          phone_number          |-> r_phone(sh, row),
                          total_purchase_amount |-> Zero],
     products        |-> <<>>]

\* p_name in inv["products"]
HasProduct(products, name) == \E i \in 1..Len(products) : products[i].name = name

\* AddProduct re-inserting a merged Product at the end of the dict
AddProductMovedLast(products, sh, row) ==
    IF HasProduct(products, p_name(sh, row))
    THEN LET at == CHOOSE i \in 1..Len(products) : products[i].name = p_name(sh, row)
         IN  Append([i \in 1..(Len(products) - 1) |->
                        IF i < at THEN products[i] ELSE products[i + 1]],
                    MergeProduct(products[at], sh, row))
    ELSE Append(products, NewProduct(sh, row))

\* lines 155-174 on one invoice's products (a dict in insertion order)
AddProduct(products, sh, row) ==
    IF HasProduct(products, p_name(sh, row))
    THEN [i \in 1..Len(products) |->
            IF products[i].name = p_name(sh, row)
            THEN MergeProduct(products[i], sh, row)
            ELSE products[i]]
    ELSE Append(products, NewProduct(sh, row))

\* group_key in raw_invoices
HasKey(raw, key) == \E i \in 1..Len(raw) : raw[i].group_key = key

\* WithInvoice without the test "group_key not in raw_invoices"
WithInvoiceAlways(raw, sh, row) == Append(raw, NewInvoice(sh, row))

\* lines 115-130: raw_invoices with the row's invoice present
WithInvoice(raw, sh, row) ==
    IF HasKey(raw, group_key(sh, row)) THEN raw ELSE Append(raw, NewInvoice(sh, row))

\* one iteration of the loop of line 79 on raw_invoices (a dict in insertion order)
AddRow(raw, sh, row) ==
    IF Excluded(sh, row) THEN raw
    ELSE LET raw1 == WithInvoice(raw, sh, row)
         IN  [i \in 1..Len(raw1) |->
                IF raw1[i].group_key = group_key(sh, row)
                THEN [raw1[i] EXCEPT !.products = AddProduct(@, sh, row)]
                ELSE raw1[i]]

\* lines 186-191: the absolute tax amounts parsed back from the tax texts
RECURSIVE TaxTotal(_)
TaxTotal(products) ==
    IF products = <<>> THEN Zero
    ELSE LET amount_match == AmountToken(Head(products).tax)
         IN  DAdd(IF amount_match # <<>> THEN parse_float(amount_match) ELSE Zero,
                  TaxTotal(Tail(products)))

\* lines 180-202 for one invoice
RollUp(inv) ==
    LET products_list == inv.products
        inv_qty   == DSum([i \in 1..Len(products_list) |-> products_list[i].quantity])
        inv_tax   == TaxTotal(products_list)
        inv_total == DSum([i \in 1..Len(products_list) |-> products_list[i].price_with_tax])
    IN  [invoice_details |-> [inv.invoice_details EXCEPT
                                 !.total_quantity   = inv_qty,
                                 !.total_tax_amount = DRound2(inv_tax),
                                 !.total_amount     = DRound2(inv_total)],
         customer        |-> [inv.customer EXCEPT
                                 !.total_purchase_amount = DRound2(inv_total)],
         products        |-> products_list]

\* lines 177-204: final_invoices
Finalise(raw) == [i \in 1..Len(raw) |-> RollUp(raw[i])]

\* the loop of line 79 over all the rows of a data frame
RECURSIVE AggregateRows(_, _, _)
AggregateRows(raw, sh, rows) ==
    IF rows = <<>> THEN raw
    ELSE AggregateRows(AddRow(raw, sh, Head(rows)), sh, Tail(rows))

(***************************************************************************)
(* The spreadsheets of the model: headers, cells, rows                     *)
(***************************************************************************)
H_Customer == <<"C","u","s","t","o","m","e","r"," ","N","a","m","e">>

H_Phone == <<"P","h","o","n","e">>

H_Date == <<"D","a","t","e">>

H_Total == <<"T","o","t","a","l">>

H_Qty == <<"Q","t","y">>

H_Unit == <<"U","n","i","t"," ","P","r","i","c","e">>

H_Product == <<"P","r","o","d","u","c","t">>

H_Serial == <<"S","e","r","i","a","l">>

H_TaxPercent == <<"T","a","x"," ","%">>

H_Tax == <<"T","a","x">>

C_Acme == <<"A","c","m","e">>

C_Bolt == <<"B","o","l","t">>

C_UnknownTitle == <<"U","n","k","n","o","w","n"," ","C","u","s","t","o","m","e","r">>

C_UnknownUpper == <<"U","N","K","N","O","W","N"," ","C","U","S","T","O","M","E","R">>

C_PhoneFloat == <<"9","9","9","8","8","8","7","7","7","0",".","0">>

C_Date == <<"2","0","2","4","-","0","1","-","0","5">>

C_Total == <<"1","0","0">>

C_Zero == <<"0">>

C_ZeroOne == <<"0",".","0">>

C_ZeroTwo == <<"0",".","0","0">>

C_S1 == <<"S","1">>

C_S2 == <<"S","2">>

C_Widget == <<"W","i","d","g","e","t">>

C_Gadget == <<"G","a","d","g","e","t">>

C_1 == <<"1">>

C_2 == <<"2">>

C_3 == <<"3">>

C_100 == <<"1","0","0">>

C_99_99 == <<"9","9",".","9","9">>

C_5000 == <<"5",",","0","0","0">>

C_18pct == <<"1","8","%">>

C_12_5pct == <<"1","2",".","5","%">>

C_18 == <<"1","8">>

C_10 == <<"1","0">>

C_1234_5 == <<"1",",","2","3","4",".","5">>

C_Blank == <<>>

\* a row in the column order of the model's sheets
Row(cust, phone, date, total, qty, unit, product, serial, tax) ==
    <<cust, phone, date, total, qty, unit, product, serial, tax>>

PercentColumns ==
    <<H_Customer, H_Phone, H_Date, H_Total, H_Qty, H_Unit, H_Product, H_Serial, H_TaxPercent>>

AmountColumns ==
    <<H_Customer, H_Phone, H_Date, H_Total, H_Qty, H_Unit, H_Product, H_Serial, H_Tax>>

\* the mapping map_excel_headings returns when it matches every heading
FullMapping(columns) ==
    [customer_name |-> columns[1], phone_number  |-> columns[2],
     invoice_date  |-> columns[3], total_amount  |-> columns[4],
     quantity      |-> columns[5], unit_price    |-> columns[6],
     product_name  |-> columns[7], serial_number |-> columns[8],
     tax           |-> columns[9]]

\* a row that is an invoice line
LineRow(cust, serial, product, qty, unit, tax) ==
    Row(cust, C_PhoneFloat, C_Date, C_Total, qty, unit, product, serial, tax)

\* a row of non-invoice noise: the Acme line with other critical cells
NoiseRow(cust, date, total, tax) ==
    Row(cust, C_PhoneFloat, date, total, C_1, C_100, C_Widget, C_S1, tax)

\* rows of a sheet whose tax column holds percentages
PercentRows ==
    { LineRow(C_Acme, C_S1, C_Widget, C_1, C_100, C_18pct),
      LineRow(C_Acme, C_S1, C_Widget, C_2, C_100, C_18pct),
      LineRow(C_Acme, C_S1, C_Gadget, C_1, C_99_99, C_12_5pct),
      LineRow(C_Acme, C_S2, C_Widget, C_1, C_100, C_18pct),
      LineRow(C_Bolt, C_S1, C_Widget, C_1, C_100, C_18pct) }
    \cup { NoiseRow(c, C_Date, C_Total, C_18pct) : c \in {C_Blank, C_UnknownUpper} }
    \cup { NoiseRow(C_Acme, C_Date, x, C_18pct) : x \in {C_Zero, C_ZeroOne} }

\* rows of a sheet whose tax column holds amounts
AmountRows ==
    { LineRow(C_Acme, C_S1, C_Widget, C_1, C_100, C_18),
      LineRow(C_Acme, C_S1, C_Widget, C_2, C_100, C_10),
      LineRow(C_Acme, C_S1, C_Gadget, C_3, C_5000, C_1234_5),
      LineRow(C_Bolt, C_S1, C_Widget, C_1, C_100, C_18),
      NoiseRow(C_UnknownTitle, C_Date, C_Total, C_18),
      NoiseRow(C_Acme, C_Blank, C_Total, C_18),
      NoiseRow(C_Acme, C_Date, C_Blank, C_18),
      NoiseRow(C_Acme, C_Date, C_ZeroTwo, C_18) }

\* a sheet whose phone column is headed "Mobile No"
H_Mobile == <<"M","o","b","i","l","e"," ","N","o">>

C_PhonePlain == <<"9","9","9","8","8","8","7","7","7","0">>

C_nan == <<"n","a","n">>

C_NaN == <<"N","a","N">>

MobileColumns ==
    <<H_Customer, H_Mobile, H_Date, H_Total, H_Qty, H_Unit, H_Product, H_Serial, H_TaxPercent>>

\* the Acme line with another phone cell
PhoneRow(phone) == Row(C_Acme, phone, C_Date, C_Total, C_1, C_100, C_Widget, C_S1, C_18pct)

MobileRows == {PhoneRow(ph) : ph \in {C_PhoneFloat, C_PhonePlain, C_nan, C_NaN}}

\* a mapping that leaves the fields of the set nulls null
MappingWithout(columns, nulls) ==
    [f \in Fields |-> IF f \in nulls THEN None ELSE FullMapping(columns)[f]]

\* a sheet whose serial column is headed "Serial No", for which the
\* generative call may leave a heading unmatched or name a heading the sheet
\* does not have
H_SerialNo == <<"S","e","r","i","a","l"," ","N","o">>

SerialNoColumns ==
    <<H_Customer, H_Phone, H_Date, H_Total, H_Qty, H_Unit, H_Product, H_SerialNo, H_Tax>>

\* the Acme line with another serial cell and phone cell
SerialRow(serial, phone) ==
    Row(C_Acme, phone, C_Date, C_Total, C_1, C_100, C_Widget, serial, C_18)

SerialNoRows ==
    {SerialRow(C_S1, C_PhoneFloat), SerialRow(C_Blank, C_PhoneFloat), SerialRow(C_S1, C_Blank)}

\* a mapping that names, for the serial number, a heading the sheet lacks
MappingAbsentSerial(columns) ==
    [FullMapping(columns) EXCEPT !.serial_number = H_Serial]

SerialNoMappings ==
    {FullMapping(SerialNoColumns), MappingAbsentSerial(SerialNoColumns)}
    \cup {MappingWithout(SerialNoColumns, {f}) :
             f \in {"serial_number", "customer_name", "invoice_date", "total_amount"}}

\* a sheet whose quantity column is headed "Quantity" and holds cells that
\* are no numbers
H_Quantity == <<"Q","u","a","n","t","i","t","y">>

C_1_2_3 == <<"1",".","2",".","3">>

C_NA == <<"n","/","a">>

QuantityColumns ==
    <<H_Customer, H_Phone, H_Date, H_Total, H_Quantity, H_Unit, H_Product, H_Serial, H_Tax>>

\* the Acme line with another quantity cell
QuantityRow(qty) ==
    Row(C_Acme, C_PhoneFloat, C_Date, C_Total, qty, C_100, C_Widget, C_S1, C_18)

QuantityRows == {QuantityRow(q) : q \in {C_1, C_Blank, C_NA, C_1_2_3}}

\* a sheet whose tax column is headed "GST %", with repeated lines of one
\* product that differ in date, unit price and tax cell
H_GstPercent == <<"G","S","T"," ","%">>

C_Date2 == <<"2","0","2","4","-","0","2","-","0","9">>

C_TinyPct == <<"0",".","0","0","0","0","1","%">>

GstColumns ==
    <<H_Customer, H_Phone, H_Date, H_Total, H_Qty, H_Unit, H_Product, H_Serial, H_GstPercent>>

\* an Acme line of the product Widget
RepeatRow(date, qty, unit, tax) ==
    Row(C_Acme, C_PhoneFloat, date, C_Total, qty, unit, C_Widget, C_S1, tax)

GstRows ==
    {RepeatRow(C_Date, C_1, C_100, C_18pct),
     RepeatRow(C_Date2, C_2, C_99_99, C_12_5pct),
     RepeatRow(C_Date, C_1, C_100, C_TinyPct)}

ColumnLayouts ==
    {PercentColumns, AmountColumns, MobileColumns, SerialNoColumns, QuantityColumns,
     GstColumns}

RowsOf(columns) ==
    CASE columns = PercentColumns  -> PercentRows
      [] columns = AmountColumns   -> AmountRows
      [] columns = MobileColumns   -> MobileRows
      [] columns = SerialNoColumns -> SerialNoRows
      [] columns = QuantityColumns -> QuantityRows
      [] columns = GstColumns      -> GstRows

\* the mappings map_excel_headings may return for the headings
MappingsOf(columns) ==
    CASE columns = MobileColumns ->
            {FullMapping(columns), MappingWithout(columns, {"phone_number"})}
      [] columns = SerialNoColumns -> SerialNoMappings
      [] OTHER -> {FullMapping(columns)}

\* the most rows a spreadsheet of the model holds
MaxRows == 3

(***************************************************************************)
(* State                                                                   *)
(***************************************************************************)
VARIABLES
    pc,              \* where process_excel_with_ai_mapping stands
    columns,         \* df.columns
    mapping_obj,     \* the ExcelHeaderMapping of map_excel_headings
    rows,            \* the rows of df the loop of line 79 has consumed
    raw_invoices,    \* the grouping dict, in insertion order
    final_invoices,  \* the list returned under "invoices"
    map_calls,       \* generative calls made by the aggregator
    previous,        \* what earlier calls on the same spreadsheet returned
    opc,             \* where process_invoice_with_ai stands
    fast_mode,       \* the fast_mode argument
    disk,            \* the staging directory base_dir: file name -> content
    saved_file_paths,\* the staged paths, in upload order
    files,           \* the uploads of the request read so far, in upload order
    idx,             \* position of the loop of line 59 in saved_file_paths
    results,         \* the list returned as data
    azure_result,    \* the text of the TextExtractor for the current file
    uploaded_file,   \* generate's uploaded handle for the current file (0: none)
    call_outcome,    \* how generate's model call ended for the current file
    remote,          \* handles held by the remote file service
    next_handle,     \* the next handle the remote file service gives out
    orphan_calls,    \* model calls still running in a worker thread after a timeout
    history          \* per processed file: the services invoked and what was appended

aggVars == <<pc, columns, mapping_obj, rows, raw_invoices, final_invoices, map_calls,
            previous>>

orchVars == <<opc, fast_mode, disk, saved_file_paths, files, idx, results, azure_result,
              uploaded_file, call_outcome, remote, next_handle, orphan_calls, history>>

vars == <<aggVars, orchVars>>

\* the sheet the aggregator works on
Sheet == [columns |-> columns, mapping |-> mapping_obj]

AggInit ==
    /\ pc = "read"
    /\ columns = <<>>
    /\ mapping_obj = [f \in Fields |-> None]
    /\ rows = <<>>
    /\ raw_invoices = <<>>
    /\ final_invoices = <<>>
    /\ map_calls = 0
    /\ previous = <<>>

\* line 17-20: pd.read_excel succeeds
ReadExcel ==
    /\ pc = "read"
    /\ \E c \in ColumnLayouts : columns' = c
    /\ pc' = "map"
    /\ UNCHANGED <<mapping_obj, rows, raw_invoices, final_invoices, map_calls, previous,
                 orchVars>>

\* line 17: pd.read_excel raises (not a workbook, unreadable file)
ReadExcelRaises ==
    /\ pc = "read"
    /\ pc' = "raised"
    /\ UNCHANGED <<columns, mapping_obj, rows, raw_invoices, final_invoices, map_calls, previous,
                 orchVars>>

\* line 23: the one generative call returns a mapping
MapHeadings ==
    /\ pc = "map"
    /\ \E m \in MappingsOf(columns) : mapping_obj' = m
    /\ map_calls' = map_calls + 1
    /\ pc' = "rows"
    /\ UNCHANGED <<columns, rows, raw_invoices, final_invoices, previous,
                 orchVars>>

\* line 23: the call raises (ai_service.py lines 215-217)
MapHeadingsRaises ==
    /\ pc = "map"
    /\ map_calls' = map_calls + 1
    /\ pc' = "raised"
    /\ UNCHANGED <<columns, mapping_obj, rows, raw_invoices, final_invoices, previous,
                 orchVars>>

\* lines 79-174: one iteration of the row loop
ProcessRow ==
    /\ pc = "rows"
    /\ Len(rows) < MaxRows
    /\ \E row \in RowsOf(columns) :
          /\ rows' = Append(rows, row)
          /\ IF ~Excluded(Sheet, row) /\ RowRaises(Sheet, row)
             THEN pc' = "raised" /\ UNCHANGED raw_invoices
             ELSE pc' = pc /\ raw_invoices' = AddRow(raw_invoices, Sheet, row)
    /\ UNCHANGED <<columns, mapping_obj, final_invoices, map_calls, previous,
                 orchVars>>

\* lines 176-204: the rows are exhausted, totals are rolled up, the call returns
Finalize ==
    /\ pc = "rows"
    /\ final_invoices' = Finalise(raw_invoices)
    /\ pc' = "returned"
    /\ UNCHANGED <<columns, mapping_obj, rows, raw_invoices, map_calls, previous,
                 orchVars>>

\* a dict that outlives the call that filled it
KeptInvoices(raw) == raw

\* line 77: raw_invoices = {} is created by every call
FreshInvoices(raw) == <<>>

\* lines 6-204 once more: a later call on the same spreadsheet, whose
\* header-mapping call returns the same mapping
CallAgain ==
    /\ pc = "returned"
    /\ previous = <<>>
    /\ previous' = Append(previous, final_invoices)
    /\ map_calls' = map_calls + 1
    /\ raw_invoices' = AggregateRows(FreshInvoices(raw_invoices), Sheet, rows)
    /\ final_invoices' = Finalise(raw_invoices')
    /\ UNCHANGED <<pc, columns, mapping_obj, rows, orchVars>>

\* no request is being served
OrchIdle ==
    /\ opc = "idle"
    /\ fast_mode = FALSE
    /\ disk = <<>>
    /\ saved_file_paths = <<>>
    /\ files = <<>>
    /\ idx = 0
    /\ results = <<>>
    /\ azure_result = <<>>
    /\ uploaded_file = 0
    /\ call_outcome = [kind |-> "none", msg |-> <<>>, shape |-> "", n |-> 0]
    /\ remote = {}
    /\ next_handle = 1
    /\ orphan_calls = 0
    /\ history = <<>>

Init == AggInit /\ OrchIdle

Next ==
    \/ ReadExcel
    \/ ReadExcelRaises
    \/ MapHeadings
    \/ MapHeadingsRaises
    \/ ProcessRow
    \/ Finalize
    \/ CallAgain

Spec == Init /\ [][Next]_vars

(***************************************************************************)
(* Reading an emitted invoice, as the claims do                            *)
(***************************************************************************)
\* the rows consumed so far that line 86 did not skip
Kept == {j \in 1..Len(rows) : ~Excluded(Sheet, rows[j])}

\* the kept rows of one GroupKey, and those of one product name among them
RowsOfKey(k) == {j \in Kept : group_key(Sheet, rows[j]) = k}

LinesOfProduct(k, n) == {j \in RowsOfKey(k) : p_name(Sheet, rows[j]) = n}

\* the GroupKey an emitted invoice shows
ShownKey(inv) ==
    <<inv.customer.customer_name, inv.invoice_details.serial_number,
      inv.customer.phone_number>>

\* the absolute amount a tax text "<amount> (<p>%)" encodes
AmountShown(text) ==
    LET sp == CHOOSE i \in 1..Len(text) : text[i] = " " /\ \A j \in 1..(i - 1) : text[j] # " "
    IN  DecOfText(Filter(SubSeq(text, 1, sp - 1), NumericChars))

\* the percentage a tax text "<amount> (<p>%)" encodes
PercentShown(text) ==
    LET lp == CHOOSE i \in 1..Len(text) : text[i] = "("
        pc_ == CHOOSE i \in 1..Len(text) : text[i] = "%"
        num == SubSeq(text, lp + 1, pc_ - 1)
        es  == {i \in 1..Len(num) : num[i] = "e"}
    IN  IF es = {} THEN DecOfText(num)
        ELSE LET e    == CHOOSE i \in es : TRUE
                 mant == DecOfText(SubSeq(num, 1, e - 1))
             IN  Norm(mant.m, mant.d + DigitsVal(SubSeq(num, e + 2, Len(num))))

\* s has no two equal elements
Distinct(s) == \A i, j \in 1..Len(s) : s[i] = s[j] => i = j

Range(s) == {s[i] : i \in 1..Len(s)}

\* sum of f over a finite set of row indices
RECURSIVE SumOver(_, _)
SumOver(S, f) ==
    IF S = {} THEN Zero
    ELSE LET j == CHOOSE x \in S : TRUE IN DAdd(f[j], SumOver(S \ {j}, f))

First(S) == CHOOSE x \in S : \A y \in S : x <= y

(***************************************************************************)
(* C1: the aggregator emits exactly one invoice per distinct GroupKey      *)
(* among the non-excluded rows, and that invoice's product list holds      *)
(* exactly one Product per distinct product name of those rows.            *)
(***************************************************************************)
C1_OneInvoicePerKey ==
    pc = "returned" =>
        /\ Distinct([i \in 1..Len(final_invoices) |-> ShownKey(final_invoices[i])])
        /\ {ShownKey(final_invoices[i]) : i \in 1..Len(final_invoices)}
              = {group_key(Sheet, rows[j]) : j \in Kept}
        /\ \A i \in 1..Len(final_invoices) :
              LET inv   == final_invoices[i]
                  names == [x \in 1..Len(inv.products) |-> inv.products[x].name]
              IN  /\ Distinct(names)
                  /\ Range(names) = {p_name(Sheet, rows[j]) : j \in RowsOfKey(ShownKey(inv))}

\* three kept rows and an excluded one give two invoices, one of two products
C1_Witness ==
    /\ pc = "returned"
    /\ Len(final_invoices) = 2
    /\ Cardinality(Kept) = 3
    /\ \E i \in 1..2 : Len(final_invoices[i].products) = 2

(***************************************************************************)
(* C2: after k >= 2 non-excluded rows of one GroupKey and product name,    *)
(* the merged Product has the summed quantity, a tax amount recomputed as  *)
(* (merged quantity x unit price) x (its percentage / 100), price_with_tax *)
(* = merged quantity x unit price + that tax: not the running sum of the   *)
(* rows' own tax or price_with_tax.                                        *)
(***************************************************************************)
\* what the claim expects of the Product merged from the lines L (|L| >= 2)
RecomputedTax(p, L) ==
    LET qty  == SumOver(L, [j \in L |-> p_qty(Sheet, rows[j])])
        perc == PercentShown(p.tax)
    IN  DMul(DMul(qty, p.unit_price), DDiv100(perc))

\* the running sums the claim rules out
SummedTax(L) == SumOver(L, [j \in L |-> RowTax(Sheet, rows[j]).amount])

SummedPrice(L) ==
    SumOver(L, [j \in L |-> DAdd(DMul(p_qty(Sheet, rows[j]), p_unit(Sheet, rows[j])),
                                 RowTax(Sheet, rows[j]).amount)])

T_Tax36 == <<"3","6",".","0","0"," ","(","1","8","%",")">>

WidgetRow == LineRow(C_Acme, C_S1, C_Widget, C_1, C_100, C_18pct)

C3_EndToEnd ==
    (pc = "returned" /\ columns = PercentColumns /\ rows = <<WidgetRow, WidgetRow>>) =>
        /\ Len(final_invoices) = 1
        /\ Len(final_invoices[1].products) = 1
        /\ final_invoices[1].products[1].name = C_Widget
        /\ final_invoices[1].products[1].quantity = Norm(2, 0)
        /\ final_invoices[1].products[1].tax = T_Tax36
        /\ final_invoices[1].products[1].price_with_tax = Norm(236, 0)
        /\ final_invoices[1].invoice_details.total_amount = Norm(236, 0)

(***************************************************************************)
(* C4: a row is excluded whenever its customer name, date or total amount  *)
(* is missing or blank, its customer name is "unknown customer" in any     *)
(* letter case, or its total amount is zero in whatever textual form       *)
(* (0, 0.0, 0.00); an excluded row creates no Invoice, adds no Product and *)
(* changes no quantity or total.                                           *)
(***************************************************************************)
\* a text that denotes the number zero
IsZeroText(text) ==
    /\ \E i \in 1..Len(text) : IsDigit(text[i])
    /\ \A i \in 1..Len(text) : text[i] \in {"0", "."}
    /\ Cardinality({i \in 1..Len(text) : text[i] = "."}) <= 1

\* the rows the claim excludes
ClaimExcluded(sh, row) ==
    \/ r_cust(sh, row) = <<>>
    \/ Lower(r_cust(sh, row)) = T_unknown_customer
    \/ r_date(sh, row) = <<>>
    \/ r_total(sh, row) = <<>>
    \/ IsZeroText(r_total(sh, row))

\* the rows consumed so far, without those the claim excludes
RECURSIVE WithoutClaimExcluded(_, _)
WithoutClaimExcluded(sh, rs) ==
    IF rs = <<>> THEN <<>>
    ELSE IF ClaimExcluded(sh, Head(rs)) THEN WithoutClaimExcluded(sh, Tail(rs))
         ELSE <<Head(rs)>> \o WithoutClaimExcluded(sh, Tail(rs))

\* the invoices are those of the sheet without the excluded rows
C4_ExcludedRowsLeaveNoTrace ==
    pc \in {"rows", "returned"} =>
        /\ raw_invoices = AggregateRows(<<>>, Sheet, WithoutClaimExcluded(Sheet, rows))
        /\ (pc = "returned" => final_invoices = Finalise(raw_invoices))

(***************************************************************************)
(* C5: for every emitted invoice, total_quantity is the sum of its         *)
(* products' quantities, total_tax_amount the sum of the absolute tax      *)
(* amounts encoded in its products' tax texts, total_amount the sum of its *)
(* products' price_with_tax rounded to 2 decimals, and                     *)
(* customer.total_purchase_amount equals total_amount.                     *)
(***************************************************************************)
C5_InvoiceTotals ==
    pc = "returned" =>
        \A i \in 1..Len(final_invoices) :
            LET inv == final_invoices[i]
                P   == 1..Len(inv.products)
            IN  /\ inv.invoice_details.total_quantity
                      = SumOver(P, [x \in P |-> inv.products[x].quantity])
                /\ inv.invoice_details.total_tax_amount
                      = SumOver(P, [x \in P |-> AmountShown(inv.products[x].tax)])
                /\ inv.invoice_details.total_amount
                      = DRound2(SumOver(P, [x \in P |-> inv.products[x].price_with_tax]))
                /\ inv.customer.total_purchase_amount = inv.invoice_details.total_amount

\* an invoice of two products, one with a thousands separator in its tax text,
\* or one whose price_with_tax has more than 2 decimals
C5_Witness ==
    /\ pc = "returned"
    /\ \E i \in 1..Len(final_invoices) :
          /\ Len(final_invoices[i].products) = 2
          /\ \E x \in 1..2 :
                \/ Contains(final_invoices[i].products[x].tax, <<",">>)
                \/ final_invoices[i].products[x].price_with_tax.d > 2

(***************************************************************************)
(* The orchestrator: process_invoice_with_ai, with AIService.generate      *)
(***************************************************************************)
F_a_pdf == <<"a",".","p","d","f">>

F_b_XLSX == <<"b",".","X","L","S","X">>

F_c_xls == <<"c",".","x","l","s">>

F_d_xlsx == <<"d",".","x","l","s","x">>

F_e_xlsx == <<"e",".","x","l","s","x">>

T_xlsx == <<".","x","l","s","x">>

T_xls == <<".","x","l","s">>

T_ocr_text == <<"I","N","V","O","I","C","E"," ","4","2">>

E_read_excel == <<"F","i","l","e"," ","i","s"," ","n","o","t"," ","a"," ","z","i","p"," ","f","i","l","e">>

E_map == <<"m","a","p","p","i","n","g"," ","f","a","i","l","e","d">>

E_azure == <<"a","z","u","r","e"," ","u","n","r","e","a","c","h","a","b","l","e">>

E_generate == <<"m","o","d","e","l"," ","u","n","a","v","a","i","l","a","b","l","e">>

E_quota == <<"Q","u","o","t","a"," ","e","x","c","e","e","d","e","d"," ","f","o","r"," ","m","e","t","r","i","c">>

E_timeout == <<>>

E_write == <<"N","o"," ","s","p","a","c","e"," ","l","e","f","t"," ","o","n"," ","d","e","v","i","c","e">>

E_none == <<"'","N","o","n","e","T","y","p","e","'"," ","o","b","j","e","c","t"," ","h","a","s"," ","n","o"," ","a","t","t","r","i","b","u","t","e"," ","'","m","o","d","e","l","_","d","u","m","p","_","j","s","o","n","'">>

T_429 == <<"4","2","9"," ","R","E","S","O","U","R","C","E","_","E","X","H","A","U","S","T","E","D">>

T_Quota_exceeded == <<"Q","u","o","t","a"," ","e","x","c","e","e","d","e","d">>

T_quota_explained == <<"4","2","9"," ","R","E","S","O","U","R","C","E","_","E","X","H","A","U","S","T","E","D",":"," ","Y","o","u"," ","h","a","v","e"," ","e","x","c","e","e","d","e","d"," ","y","o","u","r"," ","G","e","m","i","n","i"," ","A","P","I"," ","f","r","e","e"," ","t","i","e","r"," ","r","a","t","e"," ","l","i","m","i","t","/","q","u","o","t","a","."," ","P","l","e","a","s","e"," ","c","h","e","c","k"," ","y","o","u","r"," ","b","i","l","l","i","n","g"," ","d","e","t","a","i","l","s"," ","o","r"," ","t","r","y"," ","a","g","a","i","n"," ","l","a","t","e","r",".">>

T_no_invoices == <<"F","a","i","l","e","d"," ","t","o"," ","p","a","r","s","e"," ","a","g","g","r","e","g","a","t","e","d"," ","i","n","v","o","i","c","e","s"," ","l","i","s","t">>

\* the most files a request of the model uploads
MaxFiles == 2

\* the invoices of a generated DocumentExtraction that holds any
MaxGenerated == 2

\* an upload named like the one-row workbook, which is no workbook
SecondD == [filename |-> F_d_xlsx, content |-> [kind |-> "bytes", columns |-> <<>>, rows |-> <<>>]]

\* the uploads of the model: a PDF, workbooks of two, three and one rows (the
\* last one a row the aggregator skips), and a file that is no workbook
Uploads ==
    { [filename |-> F_a_pdf,  content |-> [kind |-> "bytes", columns |-> <<>>, rows |-> <<>>]],
      [filename |-> F_b_XLSX, content |-> [kind |-> "workbook", columns |-> PercentColumns,
                                           rows |-> <<WidgetRow, WidgetRow>>]],
      [filename |-> F_c_xls,  content |-> [kind |-> "workbook", columns |-> AmountColumns,
                                           rows |-> << LineRow(C_Acme, C_S1, C_Widget, C_1, C_100, C_18),
                                                       LineRow(C_Bolt, C_S1, C_Widget, C_1, C_100, C_18),
                                                       LineRow(C_Acme, C_S1, C_Widget, C_2, C_100, C_10) >>]],
      [filename |-> F_d_xlsx, content |-> [kind |-> "workbook", columns |-> PercentColumns,
                                           rows |-> <<NoiseRow(C_UnknownTitle, C_Date, C_Total, C_18pct)>>]],
      [filename |-> F_e_xlsx, content |-> [kind |-> "bytes", columns |-> <<>>, rows |-> <<>>]],
      SecondD }

\* Path(file_path).suffix
Suffix(name) ==
    LET dots == {i \in 1..Len(name) : name[i] = "."}
    IN  IF dots = {} THEN <<>>
        ELSE LET p == CHOOSE i \in dots : \A j \in dots : j <= i
             IN  IF p = 1 \/ p = Len(name) THEN <<>> ELSE SubSeq(name, p, Len(name))

\* Path(file_path).suffix, compared as written
SuffixAsWritten(name) == Suffix(name)

\* line 62: file_ext
file_ext(name) == Lower(Suffix(name))

\* line 65: file_ext in ['.xlsx', '.xls']
IsSpreadsheetPath(name) == file_ext(name) \in {T_xlsx, T_xls}

\* lines 154-156: the message recorded for exception message e
error_msg(e) ==
    IF Contains(e, T_429) \/ Contains(e, T_Quota_exceeded) THEN T_quota_explained ELSE e

\* lines 151, 159: the stand-in for a file
ErrorRecord(msg, name) == [error |-> msg, file |-> name]

\* model_dump of the k-th SingleInvoiceExtraction of a generated document
GeneratedInvoice(k) ==
    [invoice_details |-> [serial_number |-> NatDigits(k)],
     customer        |-> [customer_name |-> <<>>],
     products        |-> <<>>]

GeneratedInvoices(n) == [k \in 1..n |-> GeneratedInvoice(k)]

\* the record kept of one file's processing
NewHistory ==
    [azure |-> "none", prompt |-> "none", generate_calls |-> 0, map_calls |-> 0,
     read_ok |-> FALSE, handle |-> 0, generate_done |-> FALSE, raised |-> FALSE,
     appended |-> <<>>, done |-> FALSE, content |-> <<>>]

NoOutcome == [kind |-> "none", msg |-> <<>>, shape |-> "", n |-> 0]

\* the file the loop of line 59 is at, and its staged content
file_path == saved_file_paths[idx]

Content == disk[file_path]

\* a request arrives: fast_mode is the form field
OrchInit ==
    /\ opc = "stage"
    /\ fast_mode \in BOOLEAN
    /\ disk = <<>>
    /\ saved_file_paths = <<>>
    /\ files = <<>>
    /\ idx = 0
    /\ results = <<>>
    /\ azure_result = <<>>
    /\ uploaded_file = 0
    /\ call_outcome = NoOutcome
    /\ remote = {}
    /\ next_handle = 1
    /\ orphan_calls = 0
    /\ history = <<>>

\* the aggregator variables while the orchestrator specification runs
AggIdle ==
    /\ pc = "idle"
    /\ columns = <<>>
    /\ mapping_obj = [f \in Fields |-> None]
    /\ rows = <<>>
    /\ raw_invoices = <<>>
    /\ final_invoices = <<>>
    /\ map_calls = 0
    /\ previous = <<>>

\* lines 39-53: one upload is written to base_dir / filename
StageFile ==
    /\ opc = "stage"
    /\ Len(saved_file_paths) < MaxFiles
    /\ \E u \in Uploads :
          /\ disk' = (u.filename :> u.content) @@ disk
          /\ saved_file_paths' = Append(saved_file_paths, u.filename)
          /\ files' = Append(files, u)
    /\ UNCHANGED <<opc, fast_mode, idx, results, azure_result, uploaded_file,
                   call_outcome, remote, next_handle, orphan_calls, history, aggVars>>

\* lines 43-50, 165-167: reading or writing an upload raises, the request fails
StageRaises ==
    /\ opc = "stage"
    /\ Len(saved_file_paths) < MaxFiles
    /\ opc' = "http500"
    /\ UNCHANGED <<fast_mode, disk, saved_file_paths, files, idx, results, azure_result,
                   uploaded_file, call_outcome, remote, next_handle, orphan_calls,
                   history, aggVars>>

\* where the loop of line 59 goes after file i of n
AfterFile(i, n) == IF i < n THEN "route" ELSE "returned"

\* the per-file handler of lines 153-159 gives up on the batch
AfterFailedFileReraises(i, n) == "http500"

\* lines 153-159: the per-file handler records the failure; the loop goes on
AfterFailedFile(i, n) == AfterFile(i, n)

\* lines 56-59: every upload is staged, the processing loop starts
StartProcessing ==
    /\ opc = "stage"
    /\ results' = <<>>
    /\ IF saved_file_paths = <<>>
       THEN opc' = "returned" /\ idx' = idx
       ELSE opc' = "route" /\ idx' = 1
    /\ UNCHANGED <<fast_mode, disk, saved_file_paths, files, azure_result, uploaded_file,
                   call_outcome, remote, next_handle, orphan_calls, history, aggVars>>

\* the loop moves past the current file, whose record becomes h
EndFile(h, nextOpc) ==
    /\ history' = [history EXCEPT ![idx] = [h EXCEPT !.done = TRUE]]
    /\ results' = results \o h.appended
    /\ opc' = nextOpc
    /\ idx' = IF idx < Len(saved_file_paths) THEN idx + 1 ELSE idx

\* lines 153-159: an exception with message e ends the current file
FileFails(h, e) ==
    EndFile([h EXCEPT !.raised = TRUE,
                      !.appended = <<ErrorRecord(error_msg(e), file_path)>>],
            AfterFailedFile(idx, Len(saved_file_paths)))

\* the current file ends without an exception, entries appended to results
FileEnds(h, entries) ==
    EndFile([h EXCEPT !.appended = entries], AfterFile(idx, Len(saved_file_paths)))

\* lines 61-65 and 81-82: the branch taken for the current file
Route ==
    /\ opc = "route"
    /\ history' = Append(history,
                         [NewHistory EXCEPT !.prompt =
                             IF ~IsSpreadsheetPath(file_path) /\ fast_mode
                             THEN "placeholder" ELSE "none",
                                            !.content = Content])
    /\ opc' = IF IsSpreadsheetPath(file_path) THEN "excel"
              ELSE IF ~fast_mode THEN "extract" ELSE "upload"
    /\ azure_result' = <<>>
    /\ uploaded_file' = 0
    /\ call_outcome' = NoOutcome
    /\ UNCHANGED <<fast_mode, disk, saved_file_paths, files, idx, results, remote,
                   next_handle, orphan_calls, aggVars>>

\* the variables no step of the file loop changes
Frame == <<fast_mode, disk, saved_file_paths, files, aggVars>>

\* the current file's record
H == history[idx]

\* excel_processor.py line 17: pd.read_excel raises for the staged spreadsheet
ExcelReadRaises ==
    /\ opc = "excel"
    /\ FileFails(H, E_read_excel)
    /\ UNCHANGED <<azure_result, uploaded_file, call_outcome, remote, next_handle,
                   orphan_calls, Frame>>

\* excel_processor.py line 23: the header-mapping call raises
ExcelMapRaises ==
    /\ opc = "excel"
    /\ Content.kind = "workbook"
    /\ FileFails([H EXCEPT !.read_ok = TRUE, !.map_calls = @ + 1], E_map)
    /\ UNCHANGED <<azure_result, uploaded_file, call_outcome, remote, next_handle,
                   orphan_calls, Frame>>

\* what the spreadsheet branch appends for the aggregated invoices, by whether
\* the audit file of line 72 got written after them
ExcelEntriesExtendFirst(h, invoices, wrote) ==
    IF wrote THEN [h EXCEPT !.appended = invoices]
    ELSE [h EXCEPT !.appended = invoices \o <<ErrorRecord(error_msg(E_write), file_path)>>,
                   !.raised = TRUE]

\* lines 67-78: the audit file is written (line 72) before results.extend (line 76)
ExcelEntries(h, invoices, wrote) ==
    IF wrote THEN [h EXCEPT !.appended = invoices]
    ELSE [h EXCEPT !.appended = <<ErrorRecord(error_msg(E_write), file_path)>>,
                   !.raised = TRUE]

\* lines 66-78: the aggregator returns; the output file is written or not
ExcelAggregated ==
    /\ opc = "excel"
    /\ Content.kind = "workbook"
    /\ \E m \in MappingsOf(Content.columns), wrote \in BOOLEAN :
          LET sh       == [columns |-> Content.columns, mapping |-> m]
              invoices == Finalise(AggregateRows(<<>>, sh, Content.rows))
              h        == ExcelEntries([H EXCEPT !.read_ok = TRUE, !.map_calls = @ + 1],
                                       invoices, wrote)
          IN  EndFile(h, IF wrote THEN AfterFile(idx, Len(saved_file_paths))
                         ELSE AfterFailedFile(idx, Len(saved_file_paths)))
    /\ UNCHANGED <<azure_result, uploaded_file, call_outcome, remote, next_handle,
                   orphan_calls, Frame>>

\* line 85, ai_service.py lines 64-70: the TextExtractor returns text or ''
AzureReturns ==
    /\ opc = "extract"
    /\ \E text \in {T_ocr_text, <<>>} :
          /\ azure_result' = text
          /\ history' = [history EXCEPT ![idx] =
                [@ EXCEPT !.azure = IF text # <<>> THEN "text" ELSE "empty",
                          !.prompt = IF text # <<>> THEN "enriched" ELSE "placeholder"]]
    /\ opc' = "upload"
    /\ UNCHANGED <<idx, results, uploaded_file, call_outcome, remote, next_handle,
                   orphan_calls, Frame>>

\* line 85: _extract_text_with_Azure_Intelligence has no handler (ai_service.py
\* lines 64-70), so the exception reaches the per-file handler of line 153
AzureRaises ==
    /\ opc = "extract"
    /\ FileFails([H EXCEPT !.azure = "raised"], E_azure)
    /\ UNCHANGED <<azure_result, uploaded_file, call_outcome, remote, next_handle,
                   orphan_calls, Frame>>

\* ai_service.py lines 85-125: generate is entered and upload_one runs
Upload ==
    /\ opc = "upload"
    /\ \E ok \in BOOLEAN :
          IF ok
          THEN /\ uploaded_file' = next_handle
               /\ remote' = remote \cup {next_handle}
               /\ next_handle' = next_handle + 1
          ELSE /\ uploaded_file' = 0
               /\ UNCHANGED <<remote, next_handle>>
    /\ history' = [history EXCEPT ![idx] =
                      [@ EXCEPT !.generate_calls = @ + 1, !.handle = uploaded_file']]
    /\ opc' = "call"
    /\ UNCHANGED <<idx, results, azure_result, call_outcome, orphan_calls, Frame>>

\* ai_service.py lines 135-150: the model call returns response.parsed
ModelCallReturns ==
    /\ opc = "call"
    /\ \E shape \in {"document", "none", "dict"}, n \in {0, MaxGenerated} :
          /\ shape # "document" => n = 0
          /\ call_outcome' = [kind |-> "returned", msg |-> <<>>, shape |-> shape, n |-> n]
    /\ opc' = "cleanup"
    /\ UNCHANGED <<idx, results, azure_result, uploaded_file, remote, next_handle,
                   orphan_calls, history, Frame>>

\* ai_service.py lines 152-154: the model call raises
ModelCallRaises ==
    /\ opc = "call"
    /\ \E e \in {E_generate, E_quota} :
          call_outcome' = [kind |-> "raised", msg |-> e, shape |-> "", n |-> 0]
    /\ opc' = "cleanup"
    /\ UNCHANGED <<idx, results, azure_result, uploaded_file, remote, next_handle,
                   orphan_calls, history, Frame>>

\* ai_service.py lines 135-147: wait_for gives up after 300 s; the worker
\* thread of asyncio.to_thread keeps running the call
ModelCallTimesOut ==
    /\ opc = "call"
    /\ call_outcome' = [kind |-> "raised", msg |-> E_timeout, shape |-> "", n |-> 0]
    /\ orphan_calls' = orphan_calls + 1
    /\ opc' = "cleanup"
    /\ UNCHANGED <<idx, results, azure_result, uploaded_file, remote, next_handle,
                   history, Frame>>

\* the worker thread of a timed-out call ends
WorkerThreadEnds ==
    /\ orphan_calls > 0
    /\ orphan_calls' = orphan_calls - 1
    /\ UNCHANGED <<opc, idx, results, azure_result, uploaded_file, call_outcome,
                   remote, next_handle, history, Frame>>

\* ai_service.py lines 156-158, 167-170: the finally block deletes the handle
CleanupDeletes ==
    /\ opc = "cleanup"
    /\ uploaded_file # 0
    /\ remote' = remote \ {uploaded_file}
    /\ opc' = "finish"
    /\ UNCHANGED <<idx, results, azure_result, uploaded_file, call_outcome,
                   next_handle, orphan_calls, history, Frame>>

\* ai_service.py lines 171-172: files.delete raises, delete_one only prints
CleanupDeleteFails ==
    /\ opc = "cleanup"
    /\ uploaded_file # 0
    /\ opc' = "finish"
    /\ UNCHANGED <<idx, results, azure_result, uploaded_file, call_outcome, remote,
                   next_handle, orphan_calls, history, Frame>>

\* ai_service.py line 157: nothing was uploaded, nothing to delete
CleanupNothing ==
    /\ opc = "cleanup"
    /\ uploaded_file = 0
    /\ opc' = "finish"
    /\ UNCHANGED <<idx, results, azure_result, uploaded_file, call_outcome, remote,
                   next_handle, orphan_calls, history, Frame>>

\* ai_service.py line 150: generate returns to line 119
GenerateReturns ==
    /\ opc = "finish"
    /\ call_outcome.kind = "returned"
    /\ history' = [history EXCEPT ![idx] = [@ EXCEPT !.generate_done = TRUE]]
    /\ opc' = "parse"
    /\ UNCHANGED <<idx, results, azure_result, uploaded_file, call_outcome, remote,
                   next_handle, orphan_calls, Frame>>

\* ai_service.py line 154: generate re-raises, caught at line 153 of ai_route.py
GenerateRaises ==
    /\ opc = "finish"
    /\ call_outcome.kind = "raised"
    /\ FileFails([H EXCEPT !.generate_done = TRUE], call_outcome.msg)
    /\ UNCHANGED <<azure_result, uploaded_file, call_outcome, remote, next_handle,
                   orphan_calls, Frame>>

\* lines 131-148: a DocumentExtraction is dumped, written and its invoices appended
ParseDocument ==
    /\ opc = "parse"
    /\ call_outcome.shape = "document"
    /\ FileEnds(H, GeneratedInvoices(call_outcome.n))
    /\ UNCHANGED <<azure_result, uploaded_file, call_outcome, remote, next_handle,
                   orphan_calls, Frame>>

\* lines 149-151: a dict without an "invoices" list gives the stand-in, no exception
ParseNoInvoices ==
    /\ opc = "parse"
    /\ call_outcome.shape = "dict"
    /\ FileEnds(H, <<ErrorRecord(T_no_invoices, file_path)>>)
    /\ UNCHANGED <<azure_result, uploaded_file, call_outcome, remote, next_handle,
                   orphan_calls, Frame>>

\* line 136: response.parsed is None, model_dump_json raises AttributeError
ParseNone ==
    /\ opc = "parse"
    /\ call_outcome.shape = "none"
    /\ FileFails(H, E_none)
    /\ UNCHANGED <<azure_result, uploaded_file, call_outcome, remote, next_handle,
                   orphan_calls, Frame>>

\* line 141: writing the output file raises
ParseWriteRaises ==
    /\ opc = "parse"
    /\ call_outcome.shape \in {"document", "dict"}
    /\ FileFails(H, E_write)
    /\ UNCHANGED <<azure_result, uploaded_file, call_outcome, remote, next_handle,
                   orphan_calls, Frame>>

\* the blocking external operation the coroutine performs next in each
\* control state ("none" where it performs none)
ExternalOp ==
    CASE opc = "stage"   -> "write_upload"
      [] opc = "excel"   -> "read_excel"
      [] opc = "extract" -> "analyze_document"
      [] opc = "upload"  -> "files_upload"
      [] opc = "call"    -> "generate_content"
      [] opc = "cleanup" -> "files_delete"
      [] opc = "parse"   -> "write_output"
      [] OTHER           -> "none"

\* how the code invokes each blocking operation: through asyncio.to_thread
\* (a worker thread), or by a plain call inside the coroutine (the thread of
\* the event loop)
Dispatch ==
    [write_upload     |-> "to_thread",   \* ai_route.py lines 46-50
     read_excel       |-> "direct",      \* excel_processor.py line 17
     map_headings     |-> "to_thread",   \* ai_service.py lines 201-213
     analyze_document |-> "direct",      \* ai_service.py lines 64-69
     files_upload     |-> "to_thread",   \* ai_service.py lines 112-115
     generate_content |-> "to_thread",   \* ai_service.py lines 135-147
     files_delete     |-> "to_thread",   \* ai_service.py line 169
     write_output     |-> "to_thread"]   \* ai_route.py lines 72, 141

\* a blocking operation is running on the thread of the event loop: no other
\* request is accepted or resumed until it ends
LoopBlocked == ExternalOp # "none" /\ Dispatch[ExternalOp] = "direct"

OrchStart == AggIdle /\ OrchInit

OrchNext ==
    \/ StageFile
    \/ StageRaises
    \/ StartProcessing
    \/ Route
    \/ ExcelReadRaises
    \/ ExcelMapRaises
    \/ ExcelAggregated
    \/ AzureReturns
    \/ AzureRaises
    \/ Upload
    \/ ModelCallReturns
    \/ ModelCallRaises
    \/ ModelCallTimesOut
    \/ WorkerThreadEnds
    \/ CleanupDeletes
    \/ CleanupDeleteFails
    \/ CleanupNothing
    \/ GenerateReturns
    \/ GenerateRaises
    \/ ParseDocument
    \/ ParseNoInvoices
    \/ ParseNone
    \/ ParseWriteRaises

OrchSpec == OrchStart /\ [][OrchNext]_vars

(***************************************************************************)
(* Reading the batch result, as the claims do                              *)
(***************************************************************************)
\* an {error, file} record
IsError(entry) == "error" \in DOMAIN entry

\* the uploads whose extension is .xlsx or .xls, in any letter case
SpreadsheetNames ==
    {name \in {u.filename : u \in Uploads} : Lower(Suffix(name)) \in {T_xlsx, T_xls}}

\* the extension of the file is .xlsx or .xls
ClaimSpreadsheet(name) == name \in SpreadsheetNames

\* what the files recorded so far appended, in upload order
RECURSIVE AppendedUpTo(_)
AppendedUpTo(i) ==
    IF i = 0 THEN <<>>
    ELSE AppendedUpTo(i - 1) \o (IF history[i].done THEN history[i].appended ELSE <<>>)

\* the entries of file i are exactly one error record naming it
OneErrorRecord(i) ==
    /\ Len(history[i].appended) = 1
    /\ IsError(history[i].appended[1])
    /\ history[i].appended[1].file = saved_file_paths[i]

(***************************************************************************)
(* C6: a failure while processing one staged file never aborts the batch:  *)
(* exactly one {error, file} record for that file is appended at that      *)
(* file's position, every later file is still processed, the entries of    *)
(* data are in upload order, and the call returns the list, not raising.   *)
(***************************************************************************)
C6_FailureIsolation ==
    /\ \A i \in 1..Len(history) :
          (history[i].done /\ history[i].raised) => OneErrorRecord(i)
    /\ opc \in {"route", "returned"} => results = AppendedUpTo(Len(history))
    /\ opc = "returned" =>
          /\ Len(history) = Len(saved_file_paths)
          /\ \A i \in 1..Len(history) : history[i].done
    /\ opc = "http500" => history = <<>>

\* the first of two files failed, the second gave invoices, the call returned
C6_Witness ==
    /\ opc = "returned"
    /\ Len(history) = 2
    /\ history[1].raised
    /\ ~history[2].raised
    /\ Len(results) >= 2
    /\ IsError(results[1])
    /\ ~IsError(results[2])

(***************************************************************************)
(* C7: for a non-spreadsheet file with fast mode off, a TextExtractor      *)
(* failure is treated as "no text available": StructuredGenerator is still *)
(* attempted for the file, with the placeholder prompt, and the extraction *)
(* failure alone never produces an error record.                           *)
(***************************************************************************)
C7_ExtractionFailureDegrades ==
    \A i \in 1..Len(history) :
        (history[i].done /\ history[i].azure = "raised") =>
            /\ history[i].generate_calls = 1
            /\ history[i].prompt = "placeholder"

(***************************************************************************)
(* C8: for every call of generate that uploaded a payload, the handle is   *)
(* deleted before generate returns or raises: no uploaded handle remains   *)
(* on the remote service once generate has finished.                       *)
(***************************************************************************)
C8_HandleDeleted ==
    \A i \in 1..Len(history) :
        (history[i].generate_done /\ history[i].handle # 0) =>
            history[i].handle \notin remote

(***************************************************************************)
(* C9 (as amended): a file whose extension is .xlsx or .xls goes to the    *)
(* aggregator only: neither the TextExtractor nor generate is invoked for  *)
(* it, whether aggregation succeeds or fails, and at most one generative   *)
(* call (the header mapping) is made whatever the number of rows: exactly  *)
(* one when the workbook was read, none when reading it raised.            *)
(***************************************************************************)
C9_SpreadsheetRoute ==
    \A i \in 1..Len(history) :
        ClaimSpreadsheet(saved_file_paths[i]) =>
            /\ history[i].azure = "none"
            /\ history[i].prompt = "none"
            /\ history[i].generate_calls = 0
            /\ history[i].handle = 0
            /\ history[i].map_calls <= 1
            /\ history[i].done => (history[i].map_calls = 1 <=> history[i].read_ok)

\* C9 as claimed: exactly one generative call for every spreadsheet
C9_ExactlyOneCall ==
    \A i \in 1..Len(history) :
        (ClaimSpreadsheet(saved_file_paths[i]) /\ history[i].done) =>
            /\ history[i].azure = "none"
            /\ history[i].generate_calls = 0
            /\ history[i].map_calls = 1

\* an upper-case .XLSX of two rows and an .xls of three rows, one mapping call
\* each, one of them ending in an error record
C9_Witness ==
    /\ opc = "returned"
    /\ saved_file_paths = <<F_b_XLSX, F_c_xls>>
    /\ history[1].map_calls = 1 /\ history[1].raised
    /\ history[2].map_calls = 1 /\ Len(history[2].appended) = 2

(***************************************************************************)
(* C10 (as amended): every processed file ends in exactly one terminal     *)
(* outcome: either exactly one error record for it, or only invoices, of   *)
(* which there may be none; a file that raised ends with the error record. *)
(***************************************************************************)
C10_OneOutcome ==
    \A i \in 1..Len(history) :
        history[i].done =>
            /\ \/ OneErrorRecord(i)
               \/ \A k \in 1..Len(history[i].appended) : ~IsError(history[i].appended[k])
            /\ history[i].raised => OneErrorRecord(i)

\* C10 as claimed: a file without an error record contributes one or more
\* invoices, so every file contributes at least one entry
C10_AtLeastOneEntry ==
    \A i \in 1..Len(history) :
        history[i].done => Len(history[i].appended) >= 1

\* a batch of a spreadsheet whose rows are all skipped (no entry) and a PDF
\* that gave two invoices
C10_Witness ==
    /\ opc = "returned"
    /\ Len(history) = 2
    /\ ~history[1].raised /\ history[1].appended = <<>>
    /\ ~history[2].raised /\ Len(history[2].appended) = 2
    /\ Len(results) = 2

(***************************************************************************)
(* C11: tax parsing of a single row.  Under a header that contains "%" the *)
(* cell is a percentage p and the amount is (quantity x unit price) x      *)
(* (p / 100); otherwise the cell is an amount and p is back-computed,      *)
(* rounded to 2 decimals.  The text is "<amount, 2 decimals> (<p>%)" with  *)
(* a whole-number p written as an integer ("18%", quantity 2, unit price   *)
(* 100: amount 36 and "36.00 (18%)"); a blank cell gives 0 and             *)
(* "0.00 (0%)".                                                            *)
(***************************************************************************)
\* the percentage as the claim writes it: an integer when it is whole
ClaimedPercentText(p) == IF p.d = 0 THEN NatDigits(p.m) ELSE FloatRepr(p)

\* [amount, text] the claim gives for the tax cell of a row
ClaimedTax(sh, row) ==
    LET cell   == Strip(TaxCell(sh, row).tax_str)
        header == TaxCell(sh, row).actual_tax_col
        base   == DMul(p_qty(sh, row), p_unit(sh, row))
    IN  IF cell = <<>> THEN [amount |-> Zero, text |-> T_ZeroTax]
        ELSE IF Contains(header, T_Percent)
             THEN LET p == IF FirstNumber(cell) = <<>> THEN Zero
                           ELSE DecOfText(FirstNumber(cell))
                      a == DMul(base, DDiv100(p))
                  IN  [amount |-> a,
                       text   |-> FormatAmount(a) \o <<" ", "(">>
                                    \o ClaimedPercentText(p) \o <<"%", ")">>]
             ELSE LET a == parse_float(cell)
                      p == IF DIsPositive(base) THEN DPercentOf(a, base) ELSE Zero
                  IN  [amount |-> a,
                       text   |-> FormatAmount(a) \o <<" ", "(">>
                                    \o ClaimedPercentText(p) \o <<"%", ")">>]

\* a sheet of one kept row gives one Product whose tax is the claimed one
C11_TaxOfOneRow ==
    (pc = "returned" /\ Len(rows) = 1 /\ Kept = {1}) =>
        /\ Len(final_invoices) = 1
        /\ Len(final_invoices[1].products) = 1
        /\ final_invoices[1].products[1].tax = ClaimedTax(Sheet, rows[1]).text
        /\ final_invoices[1].products[1].price_with_tax
              = DAdd(DMul(p_qty(Sheet, rows[1]), p_unit(Sheet, rows[1])),
                     ClaimedTax(Sheet, rows[1]).amount)

ClaimedPhone(v) ==
    LET cut == IF Len(v) >= 2 /\ v[Len(v) - 1] = "." /\ v[Len(v)] = "0"
               THEN SubSeq(v, 1, Len(v) - 2) ELSE v
    IN  IF Len(cut) = 3 /\ cut[1] \in {"n", "N"} /\ cut[2] \in {"a", "A"}
                        /\ cut[3] \in {"n", "N"}
        THEN <<>> ELSE cut

C13_PhoneNormalised ==
    pc = "returned" =>
        \A j \in Kept :
            LET phone == ClaimedPhone(RawPhone(Sheet, rows[j]))
            IN  \E i \in 1..Len(final_invoices) :
                   /\ raw_invoices[i].group_key
                         = <<r_cust(Sheet, rows[j]), r_serial(Sheet, rows[j]), phone>>
                   /\ final_invoices[i].customer.phone_number = phone

\* "9998887770.0" and "9998887770" fell into one invoice, "nan" and "NaN" into
\* another, the phone column found by its "Mobile" heading
C13_Witness ==
    /\ pc = "returned"
    /\ columns = MobileColumns
    /\ mapping_obj["phone_number"] = None
    /\ Len(rows) = 3
    /\ {rows[j][2] : j \in 1..3} = {C_PhoneFloat, C_PhonePlain, C_NaN}
    /\ Len(final_invoices) = 2
    /\ {final_invoices[i].customer.phone_number : i \in 1..2} = {C_PhonePlain, <<>>}

(***************************************************************************)
(* C14: no inherently blocking external operation (reading the spreadsheet *)
(* file, the OCR service call, the generative-model calls, file writes)    *)
(* executes on the event-loop thread: each is dispatched to a worker       *)
(* thread, so that another request can be accepted and make progress while *)
(* one request waits on a slow external call.                              *)
(***************************************************************************)
C14_LoopNeverBlocked == ~LoopBlocked

(***************************************************************************)
(* C15: for any canonical field the HeaderMapping leaves null the          *)
(* aggregator falls back to the first column header containing a keyword   *)
(* of the field, so a spreadsheet whose customer_name, invoice_date or     *)
(* total_amount mapping is null but which has a matching header still      *)
(* produces invoices.                                                      *)
(***************************************************************************)
\* the keyword the claim's fallback looks for in the headers
ClaimedKeyword ==
    [customer_name |-> <<"c","u","s","t","o","m","e","r">>,
     invoice_date  |-> <<"d","a","t","e">>,
     total_amount  |-> <<"t","o","t","a","l">>]

\* the column the claim resolves a critical field to
ClaimedColumn(sh, f) ==
    LET hits == {i \in 1..Len(sh.columns) : Contains(Lower(sh.columns[i]), ClaimedKeyword[f])}
    IN  IF sh.mapping[f] # None THEN sh.mapping[f]
        ELSE IF hits = {} THEN None
             ELSE sh.columns[CHOOSE i \in hits : \A j \in hits : i <= j]

\* the sheet as the claim resolves its critical columns
ClaimedSheet(sh) ==
    [columns |-> sh.columns,
     mapping |-> [f \in Fields |-> IF f \in DOMAIN ClaimedKeyword
                                   THEN ClaimedColumn(sh, f) ELSE sh.mapping[f]]]

C15_NullMappingFallsBack ==
    ( /\ pc = "returned"
      /\ \E f \in DOMAIN ClaimedKeyword : mapping_obj[f] = None
      /\ \E j \in 1..Len(rows) : ~Excluded(ClaimedSheet(Sheet), rows[j]) )
    => final_invoices # <<>>

(***************************************************************************)
(* C16: whenever a non-excluded row has no serial number, because the      *)
(* serial column is unmapped or absent or because the row's serial cell is *)
(* blank, the serial component of its GroupKey and the invoice's           *)
(* serial_number are "Unknown Serial"; whenever it has no phone, the phone *)
(* component is the empty string.                                          *)
(***************************************************************************)
\* the row has no serial number, in one of the three ways of the claim
ClaimNoSerial(sh, row) ==
    \/ ~InColumns(sh, get_col(sh, "serial_number"))
    \/ Strip(Cell(sh, row, get_col(sh, "serial_number"))) = <<>>

\* the row has no phone: no phone-like column holds anything for it
ClaimNoPhone(sh, row) == RawPhone(sh, row) = <<>>

C16_UnknownSerial ==
    pc = "returned" =>
        \A j \in Kept :
            /\ ClaimNoSerial(Sheet, rows[j]) =>
                  /\ group_key(Sheet, rows[j])[2] = T_Unknown_Serial
                  /\ \E i \in 1..Len(final_invoices) :
                        /\ ShownKey(final_invoices[i]) = group_key(Sheet, rows[j])
                        /\ final_invoices[i].invoice_details.serial_number = T_Unknown_Serial
            /\ ClaimNoPhone(Sheet, rows[j]) => group_key(Sheet, rows[j])[3] = <<>>

(***************************************************************************)
(* C17: invoices are emitted in the order in which their GroupKeys first   *)
(* occur among the non-excluded rows, and within each invoice products are *)
(* emitted in the order in which their names first occur in that invoice's *)
(* rows; later rows of an existing key or name never move it.              *)
(***************************************************************************)
C17_FirstSeenOrder ==
    pc = "returned" =>
        /\ \A i, i2 \in 1..Len(final_invoices) :
              i < i2 =>
                  LET A == RowsOfKey(ShownKey(final_invoices[i]))
                      B == RowsOfKey(ShownKey(final_invoices[i2]))
                  IN  A # {} /\ B # {} /\ First(A) < First(B)
        /\ \A i \in 1..Len(final_invoices) :
              LET inv == final_invoices[i]
                  k   == ShownKey(inv)
              IN  \A x, x2 \in 1..Len(inv.products) :
                      x < x2 =>
                          LET A == LinesOfProduct(k, inv.products[x].name)
                              B == LinesOfProduct(k, inv.products[x2].name)
                          IN  A # {} /\ B # {} /\ First(A) < First(B)

\* the key of the first row comes back after another key, and its invoice
\* is still the first of the two
C17_Witness ==
    /\ pc = "returned"
    /\ Len(rows) = 3
    /\ Kept = {1, 2, 3}
    /\ group_key(Sheet, rows[3]) = group_key(Sheet, rows[1])
    /\ group_key(Sheet, rows[2]) # group_key(Sheet, rows[1])
    /\ Len(final_invoices) = 2
    /\ ShownKey(final_invoices[1]) = group_key(Sheet, rows[1])

(***************************************************************************)
(* C18: malformed or degenerate numeric data never makes the aggregator    *)
(* raise: a cell that is empty or has no parsable numeric residue          *)
(* (including one with several decimal points) is read as 0.0, and         *)
(* back-computing the tax percentage when quantity x unit_price is zero    *)
(* yields 0% instead of a division fault.                                  *)
(***************************************************************************)
\* the cell is empty or its residue of digits and points is no number
ClaimDegenerate(cell) ==
    LET residue == SelectSeq(cell, LAMBDA c : c \in NumericChars)
        points  == {i \in 1..Len(residue) : residue[i] = "."}
    IN  \/ residue = <<>>
        \/ Cardinality(points) = Len(residue)
        \/ Cardinality(points) > 1

T_Tax18Zero == <<"1","8",".","0","0"," ","(","0","%",")">>

C18_MalformedNeverRaises ==
    /\ pc = "raised" => rows = <<>>
    /\ pc = "returned" =>
          \A j \in Kept :
              LET k    == group_key(Sheet, rows[j])
                  n    == p_name(Sheet, rows[j])
                  col  == get_col(Sheet, "quantity")
                  head == TaxCell(Sheet, rows[j]).actual_tax_col
              IN  ( /\ InColumns(Sheet, col)
                    /\ ClaimDegenerate(Cell(Sheet, rows[j], col))
                    /\ LinesOfProduct(k, n) = {j} )
                  => \E i \in 1..Len(final_invoices) :
                         /\ ShownKey(final_invoices[i]) = k
                         /\ \E x \in 1..Len(final_invoices[i].products) :
                               LET p == final_invoices[i].products[x]
                               IN  /\ p.name = n
                                   /\ p.quantity = Zero
                                   /\ ~Contains(head, T_Percent)
                                         => PercentShown(p.tax) = Zero

\* a sheet whose only row has the quantity "1.2.3" and the tax amount 18
C18_Witness ==
    /\ pc = "returned"
    /\ rows = <<QuantityRow(C_1_2_3)>>
    /\ Len(final_invoices) = 1
    /\ final_invoices[1].products[1].quantity = Zero
    /\ final_invoices[1].products[1].tax = T_Tax18Zero

(***************************************************************************)
(* C19: when rows with the same GroupKey and product name are merged, the  *)
(* merged Product keeps the unit_price and the tax percentage of the first *)
(* occurrence: the unit price cell and the tax cell of every later         *)
(* occurrence have no effect on the output, only its quantity does, and    *)
(* the invoice date is the date of the first row of the group.             *)
(***************************************************************************)
C19_FirstOccurrenceKept ==
    pc = "returned" =>
        \A i \in 1..Len(final_invoices) :
            LET inv == final_invoices[i]
                k   == ShownKey(inv)
            IN  /\ RowsOfKey(k) # {}
                /\ inv.invoice_details.date = r_date(Sheet, rows[First(RowsOfKey(k))])
                /\ \A x \in 1..Len(inv.products) :
                      LET p == inv.products[x]
                          L == LinesOfProduct(k, p.name)
                          first == rows[First(L)]
                      IN  /\ L # {}
                          /\ p.unit_price = p_unit(Sheet, first)
                          /\ PercentShown(p.tax) = PercentShown(RowTax(Sheet, first).text)
                          /\ p.quantity = SumOver(L, [j \in L |-> p_qty(Sheet, rows[j])])

(***************************************************************************)
(* C20: the content processed for an uploaded file is the content of that  *)
(* upload: no other upload, whether a second file with the same filename   *)
(* in the same batch or a file of a concurrently running request started   *)
(* in the same second, can overwrite its staged file or its output file    *)
(* before it is processed.                                                 *)
(***************************************************************************)
C20_StagingIsolation ==
    \A i \in 1..Len(history) : history[i].content = files[i].content

=============================================================================
